---- MODULE Spec2Model ----
(***************************************************************************)
(* A model of the JPEG encode pipeline of libcamera-apps                   *)
(* (src/encoder/jpeg_encoder.cpp): the submission queue (EncodeBuffer),    *)
(* the pool of encodeThread workers, the per-worker output queues, the     *)
(* reassembly thread (outputThread) and the destructor's two-phase         *)
(* shutdown; and of the segment assembly done by each worker.              *)
(*                                                                         *)
(* Threads are interleaved one statement group at a time.  A mutex is a    *)
(* variable holding its owner; a step that needs the mutex is enabled only *)
(* while the mutex is free.  wait_for(lock, 200ms) releases the mutex and  *)
(* the thread wakes (notification, timeout or spuriously) by taking the    *)
(* mutex again, so a wake-up never depends on a notification.              *)
(*                                                                         *)
(* An exception that leaves encodeThread or outputThread is uncaught in a  *)
(* std::thread and ends the process (std::terminate); libjpeg's standard   *)
(* error manager ends it with exit().  Both are modelled by `halted`.      *)
(***************************************************************************)
EXTENDS Integers, Sequences, FiniteSets, TLC

(* ------------------------------ bounds --------------------------------- *)

\* Size of the worker pool (the constant of jpeg_encoder.hpp).
NUM_ENC_THREADS == 2

\* At most this many frames are submitted in one run.
MaxFrames == 3

\* The compressor's output is at most this much longer than its header.
MaxImageLen == 3

\* Longest metadata block.
MaxExifLen == 3

\* Longest thumbnail.
MaxThumbLen == 2

\* A metadata block length just below the one that needs a second length byte.
LargeExifLen == 253

\* Gains run from 1.0 up by this many steps of 1/GainDenom.
MaxGainSteps == 3

\* Longest exposure time, in microseconds.
MaxExposure == 2

\* Tallest frame, in rows.
MaxHeight == 33

\* Widest row, in pairs of bytes.
MaxHalfStride == 2

\* At most this many outputBuffer calls are made on one ImageOutput.
MaxCalls == 5

\* Largest options_->wrap.
MaxWrap == 3

\* At most this many iterations of event_loop get a completed request.
MaxIterations == 2

\* At most this many lines are typed on stdin.
MaxTyped == 1

(* ----------------------------- constants ------------------------------- *)

\* offset of image in JPEG buffer
exif_image_offset == 20

\* #define GPIO_TRIGGER_INDEX 20
GPIO_TRIGGER_INDEX == 20

(* ------------------------------ threads -------------------------------- *)

EncodeThreads == 0 .. (NUM_ENC_THREADS - 1)

EncodeThreadId(num) == <<"encodeThread", num>>

OutputThreadId == <<"outputThread", 0>>

NoThread == <<"none", 0>>

\* An EncodeItem / OutputItem is known by its index; NoItem stands for a
\* thread-local item variable that holds nothing the thread will read.
NoItem == [index |-> 0 - 1]

NoFailure == [index |-> 0 - 1, kind |-> "none"]

(* ------------------------------- state --------------------------------- *)

VARIABLES
    abortEncode_,     \* set by the destructor, read by the workers
    abortOutput_,     \* set by the destructor, read by outputThread
    index_,           \* next sequence index to issue
    encode_queue_,    \* the submission queue: a sequence of EncodeItems
    output_queue_,    \* one queue of OutputItems per worker
    encode_mutex_,    \* owner of encode_mutex_
    output_mutex_,    \* owner of output_mutex_
    epc,              \* position of each encodeThread
    encode_item,      \* encodeThread's local encode_item
    opc,              \* position of outputThread
    index,            \* outputThread's local index
    item,             \* outputThread's local item
    dpc,              \* position of the thread that owns the encoder
    halted,           \* the process has been ended by a failure
    \* Observations of the run (never read by the program):
    submitted,        \* the EncodeItems appended, in the order appended
    dequeued,         \* the EncodeItems taken off the queue, in that order
    late_submit,      \* an EncodeBuffer call was made after shutdown began
    pending_at_abort, \* frames queued or being encoded when shutdown began
    compressed,       \* indices whose encodeJPEG call has returned
    created,          \* indices whose output segment has been created
    released,         \* number of input_done_callback_ invocations
    sink,             \* completed output_ready_callback_ calls, in order
    sink_busy,        \* threads currently inside output_ready_callback_
    freed,            \* per index, how often its segment has been freed
    failure,          \* the failure that ended the process, if any
    \* One run of the segment assembly of encodeThread (lines 315-326):
    jpeg_len,         \* length of the compressor's output (jpeg_buffer)
    exif_len,         \* length of the metadata block (exif_buffer)
    thumb_len,        \* length of the thumbnail (thumb_buffer)
    stream_ok,        \* the memory stream takes every byte written to it
    assemble_pc,      \* "input", then "closed" (line 326) or "thrown" (324)
    output_buf,       \* the bytes in the memory stream
    output_len,       \* the stream's length, set by fclose
    \* One call of create_exif_data (lines 127-256):
    metadata,         \* the frame's ControlList: control name -> value
    exif_alloc_ok,    \* libexif's allocations succeed
    exif_pc,          \* "input", then "saved" (line 242) or "thrown" (254)
    exif,             \* the entries of the ExifData: tag -> value
    \* One call of encodeJPEG (lines 55-99); a pointer is its byte offset
    \* from item.mem:
    height,           \* item.info.height
    stride,           \* item.info.stride
    next_scanline,    \* cinfo.next_scanline
    Y_row,            \* the loop's Y_row
    U_row,            \* the loop's U_row
    V_row,            \* the loop's V_row
    y_rows,           \* the 16 luma row pointers last handed to libjpeg
    u_rows,           \* the 8 U row pointers last handed to libjpeg
    v_rows,           \* the 8 V row pointers last handed to libjpeg
    jpeg_pc,          \* "bands", then "finished" (line 97)
    \* An ImageOutput object (src/output/image_output.cpp):
    output,           \* options_->output: "-", "" or a file-name pattern
    wrap,             \* options_->wrap
    count_,           \* the counter the next file name is made from
    fp_,              \* the stream of the file being written
    image_pc,         \* position inside outputBuffer, "ready" between calls
    file_log,         \* per outputBuffer call so far, what it did
    \* event_loop and what it polls (src/apps/libcamera_still_stream.cpp):
    options,          \* the options event_loop reads: keypress, signal, frames, timeout
    stdin,            \* first characters of the lines waiting on stdin; "EOF" when closed
    signal_received,  \* the static set by default_signal_handler
    gpio_received,    \* the static set by gpioHandler
    count,            \* the loop counter
    enabled,          \* the loop's trigger latch
    key,              \* the value get_key_or_signal is building or has returned
    loop_pc,          \* position inside event_loop
    iter_log          \* per iteration begun, what was read and which app calls were made

pipeline_vars ==
    <<abortEncode_, abortOutput_, index_, encode_queue_, output_queue_,
      encode_mutex_, output_mutex_, epc, encode_item, opc, index, item, dpc,
      halted, submitted, dequeued, late_submit, pending_at_abort, compressed, created,
      released, sink, sink_busy, freed, failure>>

assemble_vars ==
    <<jpeg_len, exif_len, thumb_len, stream_ok, assemble_pc, output_buf,
      output_len>>

exif_vars == <<metadata, exif_alloc_ok, exif_pc, exif>>

jpeg_vars ==
    <<height, stride, next_scanline, Y_row, U_row, V_row, y_rows, u_rows,
      v_rows, jpeg_pc>>

image_vars == <<output, wrap, count_, fp_, image_pc, file_log>>

loop_vars ==
    <<options, stdin, signal_received, gpio_received, count, enabled, key,
      loop_pc, iter_log>>

vars == <<pipeline_vars, assemble_vars, exif_vars, jpeg_vars, image_vars, loop_vars>>

\* What the steps of the pipeline's threads leave alone.
outside_pipeline == <<assemble_vars, exif_vars, jpeg_vars, image_vars, loop_vars>>

\* What a step of the segment assembly leaves alone.
outside_assemble == <<pipeline_vars, exif_vars, jpeg_vars, image_vars, loop_vars>>

\* What a step of create_exif_data leaves alone.
outside_exif == <<pipeline_vars, assemble_vars, jpeg_vars, image_vars, loop_vars>>

\* What a step of encodeJPEG leaves alone.
outside_jpeg == <<pipeline_vars, assemble_vars, exif_vars, image_vars, loop_vars>>

\* What a step of event_loop or of one of its handlers leaves alone.
outside_loop == <<pipeline_vars, assemble_vars, exif_vars, jpeg_vars, image_vars>>

\* What a step of ImageOutput leaves alone.
outside_image == <<pipeline_vars, assemble_vars, exif_vars, jpeg_vars, loop_vars>>

Indices == 0 .. (MaxFrames - 1)

\* Frames that have left the caller and not yet reached an output queue.
PendingFrames ==
    Len(encode_queue_) + Cardinality({n \in EncodeThreads : encode_item[n] # NoItem})

(* ---------------------- construction (lines 26-34) --------------------- *)

PipelineInit ==
    /\ abortEncode_ = FALSE
    /\ abortOutput_ = FALSE
    /\ index_ = 0
    /\ encode_queue_ = <<>>
    /\ output_queue_ = [n \in EncodeThreads |-> <<>>]
    /\ encode_mutex_ = NoThread
    /\ output_mutex_ = NoThread
    /\ epc = [n \in EncodeThreads |-> "lock"]
    /\ encode_item = [n \in EncodeThreads |-> NoItem]
    /\ opc = "lock"
    /\ index = 0
    /\ item = NoItem
    /\ dpc = "open"
    /\ halted = FALSE
    /\ submitted = <<>>
    /\ dequeued = <<>>
    /\ late_submit = FALSE
    /\ pending_at_abort = 0
    /\ compressed = {}
    /\ created = {}
    /\ released = 0
    /\ sink = <<>>
    /\ sink_busy = {}
    /\ freed = [i \in Indices |-> 0]
    /\ failure = NoFailure

\* No segment assembly under way.
AssembleIdle ==
    /\ jpeg_len = 0
    /\ exif_len = 0
    /\ thumb_len = 0
    /\ stream_ok = TRUE
    /\ assemble_pc = "idle"
    /\ output_buf = <<>>
    /\ output_len = 0

\* No create_exif_data call under way.
ExifIdle ==
    /\ metadata = <<>>
    /\ exif_alloc_ok = TRUE
    /\ exif_pc = "idle"
    /\ exif = <<>>

\* No encodeJPEG call under way.
JpegIdle ==
    /\ height = 0
    /\ stride = 0
    /\ next_scanline = 0
    /\ Y_row = 0
    /\ U_row = 0
    /\ V_row = 0
    /\ y_rows = <<>>
    /\ u_rows = <<>>
    /\ v_rows = <<>>
    /\ jpeg_pc = "idle"

\* fp_ is nullptr, stdout, or the stream opened by the call with that number.
NullFp == [kind |-> "nullptr", call |-> 0]

\* No ImageOutput in use.
ImageIdle ==
    /\ output = ""
    /\ wrap = 0
    /\ count_ = 0
    /\ fp_ = NullFp
    /\ image_pc = "idle"
    /\ file_log = <<>>

\* event_loop not entered.
LoopIdle ==
    /\ options = [keypress |-> FALSE, signal |-> FALSE, frames |-> 0, timeout |-> 0]
    /\ stdin = <<>>
    /\ signal_received = "0"
    /\ gpio_received = 0
    /\ count = 0
    /\ enabled = FALSE
    /\ key = "0"
    /\ loop_pc = "idle"
    /\ iter_log = <<>>

Init == PipelineInit /\ AssembleIdle /\ ExifIdle /\ JpegIdle /\ ImageIdle /\ LoopIdle

(* ------------------- JpegEncoder::EncodeBuffer (47-53) ----------------- *)

\* EncodeBuffer with the counter incremented before it is read (++index_).
EncodeBufferPreIncrement ==
    /\ ~halted
    /\ UNCHANGED outside_pipeline
    /\ UNCHANGED dequeued
    /\ dpc # "closed"
    /\ encode_mutex_ = NoThread
    /\ index_ < MaxFrames
    /\ encode_queue_' = Append(encode_queue_, [index |-> index_ + 1])
    /\ index_' = index_ + 1
    /\ submitted' = Append(submitted, [index |-> index_ + 1])
    /\ late_submit' = (late_submit \/ abortEncode_)
    /\ UNCHANGED <<abortEncode_, abortOutput_, output_queue_, encode_mutex_,
                   output_mutex_, epc, encode_item, opc, index, item, dpc,
                   halted, pending_at_abort, compressed, created, released,
                   sink, sink_busy, freed, failure>>

\* The whole body runs under lock_guard(encode_mutex_) and touches only what
\* the mutex protects, so it is one step taken while the mutex is free.
\* Nothing in it looks at abortEncode_.
EncodeBuffer ==
    /\ ~halted
    /\ UNCHANGED outside_pipeline
    /\ UNCHANGED dequeued
    /\ dpc # "closed"
    /\ encode_mutex_ = NoThread
    /\ index_ < MaxFrames
    /\ encode_queue_' = Append(encode_queue_, [index |-> index_])
    /\ index_' = index_ + 1
    /\ submitted' = Append(submitted, [index |-> index_])
    /\ late_submit' = (late_submit \/ abortEncode_)
    /\ UNCHANGED <<abortEncode_, abortOutput_, output_queue_, encode_mutex_,
                   output_mutex_, epc, encode_item, opc, index, item, dpc,
                   halted, pending_at_abort, compressed, created, released,
                   sink, sink_busy, freed, failure>>

(* ------------------- JpegEncoder::encodeThread (258-346) --------------- *)

\* Line 274: unique_lock(encode_mutex_).
EncodeThreadLock(num) ==
    /\ ~halted
    /\ UNCHANGED outside_pipeline
    /\ UNCHANGED dequeued
    /\ epc[num] = "lock"
    /\ encode_mutex_ = NoThread
    /\ encode_mutex_' = EncodeThreadId(num)
    /\ epc' = [epc EXCEPT ![num] = "check"]
    /\ UNCHANGED <<abortEncode_, abortOutput_, index_, encode_queue_,
                   output_queue_, output_mutex_, encode_item, opc, index, item,
                   dpc, halted, submitted, late_submit, pending_at_abort,
                   compressed, created, released, sink, sink_busy, freed,
                   failure>>

\* EncodeThreadCheck returning as soon as abortEncode_ is set, whatever the
\* queue holds.
EncodeThreadCheckAbortFirst(num) ==
    /\ ~halted
    /\ UNCHANGED outside_pipeline
    /\ epc[num] = "check"
    /\ encode_mutex_ = EncodeThreadId(num)
    /\ \/ /\ abortEncode_
          /\ epc' = [epc EXCEPT ![num] = "done"]
          /\ UNCHANGED <<encode_queue_, encode_item, dequeued>>
       \/ /\ ~abortEncode_ /\ encode_queue_ # <<>>
          /\ encode_item' = [encode_item EXCEPT ![num] = Head(encode_queue_)]
          /\ encode_queue_' = Tail(encode_queue_)
          /\ dequeued' = Append(dequeued, Head(encode_queue_))
          /\ epc' = [epc EXCEPT ![num] = "encode"]
       \/ /\ ~abortEncode_ /\ encode_queue_ = <<>>
          /\ epc' = [epc EXCEPT ![num] = "wait"]
          /\ UNCHANGED <<encode_queue_, encode_item, dequeued>>
    /\ encode_mutex_' = NoThread
    /\ UNCHANGED <<abortEncode_, abortOutput_, index_, output_queue_,
                   output_mutex_, opc, index, item, dpc, halted, submitted,
                   late_submit, pending_at_abort, compressed, created,
                   released, sink, sink_busy, freed, failure>>

\* EncodeThreadCheck handing the raw buffer back as soon as the item has
\* been taken off the queue.
EncodeThreadCheckReleaseAtPop(num) ==
    /\ ~halted
    /\ UNCHANGED outside_pipeline
    /\ epc[num] = "check"
    /\ encode_mutex_ = EncodeThreadId(num)
    /\ \/ /\ abortEncode_ /\ encode_queue_ = <<>>
          /\ epc' = [epc EXCEPT ![num] = "done"]
          /\ UNCHANGED <<encode_queue_, encode_item, released, dequeued>>
       \/ /\ encode_queue_ # <<>>
          /\ encode_item' = [encode_item EXCEPT ![num] = Head(encode_queue_)]
          /\ encode_queue_' = Tail(encode_queue_)
          /\ dequeued' = Append(dequeued, Head(encode_queue_))
          /\ released' = released + 1
          /\ epc' = [epc EXCEPT ![num] = "encode"]
       \/ /\ ~abortEncode_ /\ encode_queue_ = <<>>
          /\ epc' = [epc EXCEPT ![num] = "wait"]
          /\ UNCHANGED <<encode_queue_, encode_item, released, dequeued>>
    /\ encode_mutex_' = NoThread
    /\ UNCHANGED <<abortEncode_, abortOutput_, index_, output_queue_,
                   output_mutex_, opc, index, item, dpc, halted, submitted,
                   late_submit, pending_at_abort, compressed, created,
                   sink, sink_busy, freed, failure>>

\* EncodeThreadCheck copying the front item without popping it.
EncodeThreadCheckNoPop(num) ==
    /\ ~halted
    /\ UNCHANGED outside_pipeline
    /\ epc[num] = "check"
    /\ encode_mutex_ = EncodeThreadId(num)
    /\ \/ /\ abortEncode_ /\ encode_queue_ = <<>>
          /\ epc' = [epc EXCEPT ![num] = "done"]
          /\ UNCHANGED <<encode_item, dequeued>>
       \/ /\ encode_queue_ # <<>>
          /\ encode_item' = [encode_item EXCEPT ![num] = Head(encode_queue_)]
          /\ dequeued' = Append(dequeued, Head(encode_queue_))
          /\ epc' = [epc EXCEPT ![num] = "encode"]
       \/ /\ ~abortEncode_ /\ encode_queue_ = <<>>
          /\ epc' = [epc EXCEPT ![num] = "wait"]
          /\ UNCHANGED <<encode_item, dequeued>>
    /\ encode_mutex_' = NoThread
    /\ UNCHANGED <<abortEncode_, abortOutput_, index_, encode_queue_,
                   output_queue_, output_mutex_, opc, index, item, dpc,
                   halted, submitted, late_submit, pending_at_abort,
                   compressed, created, released, sink, sink_busy, freed,
                   failure>>

\* EncodeThreadCheck leaving the inner block with encode_mutex_ still held
\* when it has taken an item.
EncodeThreadCheckKeepsLock(num) ==
    /\ ~halted
    /\ UNCHANGED outside_pipeline
    /\ epc[num] = "check"
    /\ encode_mutex_ = EncodeThreadId(num)
    /\ \/ /\ abortEncode_ /\ encode_queue_ = <<>>
          /\ epc' = [epc EXCEPT ![num] = "done"]
          /\ encode_mutex_' = NoThread
          /\ UNCHANGED <<encode_queue_, encode_item, dequeued>>
       \/ /\ encode_queue_ # <<>>
          /\ encode_item' = [encode_item EXCEPT ![num] = Head(encode_queue_)]
          /\ encode_queue_' = Tail(encode_queue_)
          /\ dequeued' = Append(dequeued, Head(encode_queue_))
          /\ epc' = [epc EXCEPT ![num] = "encode"]
          /\ UNCHANGED encode_mutex_
       \/ /\ ~abortEncode_ /\ encode_queue_ = <<>>
          /\ epc' = [epc EXCEPT ![num] = "wait"]
          /\ encode_mutex_' = NoThread
          /\ UNCHANGED <<encode_queue_, encode_item, dequeued>>
    /\ UNCHANGED <<abortEncode_, abortOutput_, index_, output_queue_,
                   output_mutex_, opc, index, item, dpc, halted, submitted,
                   late_submit, pending_at_abort, compressed, created,
                   released, sink, sink_busy, freed, failure>>

\* Lines 278-293, with encode_mutex_ held: return on abort with an empty
\* queue, else pop the front item (the lock's scope ends at line 295), else
\* wait_for, which gives the mutex up.
EncodeThreadCheck(num) ==
    /\ ~halted
    /\ UNCHANGED outside_pipeline
    /\ epc[num] = "check"
    /\ encode_mutex_ = EncodeThreadId(num)
    /\ \/ /\ abortEncode_ /\ encode_queue_ = <<>>
          /\ epc' = [epc EXCEPT ![num] = "done"]
          /\ UNCHANGED <<encode_queue_, encode_item, dequeued>>
       \/ /\ encode_queue_ # <<>>
          /\ encode_item' = [encode_item EXCEPT ![num] = Head(encode_queue_)]
          /\ encode_queue_' = Tail(encode_queue_)
          /\ dequeued' = Append(dequeued, Head(encode_queue_))
          /\ epc' = [epc EXCEPT ![num] = "encode"]
       \/ /\ ~abortEncode_ /\ encode_queue_ = <<>>
          /\ epc' = [epc EXCEPT ![num] = "wait"]
          /\ UNCHANGED <<encode_queue_, encode_item, dequeued>>
    /\ encode_mutex_' = NoThread
    /\ UNCHANGED <<abortEncode_, abortOutput_, index_, output_queue_,
                   output_mutex_, opc, index, item, dpc, halted, submitted,
                   late_submit, pending_at_abort, compressed, created,
                   released, sink, sink_busy, freed, failure>>

\* EncodeThreadWake for a wait without a timeout: the worker comes back only
\* when EncodeBuffer has queued something.
EncodeThreadWakeOnNotifyOnly(num) ==
    /\ ~halted
    /\ UNCHANGED outside_pipeline
    /\ UNCHANGED dequeued
    /\ epc[num] = "wait"
    /\ encode_queue_ # <<>>
    /\ encode_mutex_ = NoThread
    /\ encode_mutex_' = EncodeThreadId(num)
    /\ epc' = [epc EXCEPT ![num] = "check"]
    /\ UNCHANGED <<abortEncode_, abortOutput_, index_, encode_queue_,
                   output_queue_, output_mutex_, encode_item, opc, index, item,
                   dpc, halted, submitted, late_submit, pending_at_abort,
                   compressed, created, released, sink, sink_busy, freed,
                   failure>>

\* Line 293: wait_for returns (notify_all, the 200ms timeout, or spuriously)
\* once it has taken encode_mutex_ again.
EncodeThreadWake(num) ==
    /\ ~halted
    /\ UNCHANGED outside_pipeline
    /\ UNCHANGED dequeued
    /\ epc[num] = "wait"
    /\ encode_mutex_ = NoThread
    /\ encode_mutex_' = EncodeThreadId(num)
    /\ epc' = [epc EXCEPT ![num] = "check"]
    /\ UNCHANGED <<abortEncode_, abortOutput_, index_, encode_queue_,
                   output_queue_, output_mutex_, encode_item, opc, index, item,
                   dpc, halted, submitted, late_submit, pending_at_abort,
                   compressed, created, released, sink, sink_busy, freed,
                   failure>>

\* EncodeThreadCompress with a compression failure caught and the frame
\* dropped: the worker goes back for the next item.
EncodeThreadCompressSkip(num) ==
    /\ ~halted
    /\ UNCHANGED outside_pipeline
    /\ UNCHANGED dequeued
    /\ epc[num] = "encode"
    /\ \/ /\ compressed' = compressed \cup {encode_item[num].index}
          /\ epc' = [epc EXCEPT ![num] = "embed"]
          /\ UNCHANGED <<failure, encode_item>>
       \/ /\ failure' = [index |-> encode_item[num].index, kind |-> "compress"]
          /\ encode_item' = [encode_item EXCEPT ![num] = NoItem]
          /\ epc' = [epc EXCEPT ![num] = "lock"]
          /\ UNCHANGED <<compressed>>
    /\ UNCHANGED <<abortEncode_, abortOutput_, index_, encode_queue_,
                   output_queue_, encode_mutex_, output_mutex_, halted,
                   opc, index, item, dpc, submitted, late_submit,
                   pending_at_abort, created, released, sink, sink_busy, freed>>

\* Lines 298-301: encodeJPEG.  It returns, or libjpeg's error_exit (the
\* jpeg_std_error manager of line 262) ends the process.
EncodeThreadCompress(num) ==
    /\ ~halted
    /\ UNCHANGED outside_pipeline
    /\ UNCHANGED dequeued
    /\ epc[num] = "encode"
    /\ \/ /\ compressed' = compressed \cup {encode_item[num].index}
          /\ epc' = [epc EXCEPT ![num] = "embed"]
          /\ UNCHANGED <<halted, failure>>
       \/ /\ halted' = TRUE
          /\ failure' = [index |-> encode_item[num].index, kind |-> "compress"]
          /\ UNCHANGED <<compressed, epc>>
    /\ UNCHANGED <<abortEncode_, abortOutput_, index_, encode_queue_,
                   output_queue_, encode_mutex_, output_mutex_, encode_item,
                   opc, index, item, dpc, submitted, late_submit,
                   pending_at_abort, created, released, sink, sink_busy, freed>>

\* Lines 303-333: create_exif_data, then the segment is written into a
\* memory stream.  create_exif_data rethrows (line 254) and a short write
\* throws (line 324); either exception leaves the thread function.
EncodeThreadEmbed(num) ==
    /\ ~halted
    /\ UNCHANGED outside_pipeline
    /\ UNCHANGED dequeued
    /\ epc[num] = "embed"
    /\ \/ /\ created' = created \cup {encode_item[num].index}
          /\ epc' = [epc EXCEPT ![num] = "lock_out"]
          /\ UNCHANGED <<halted, failure>>
       \/ /\ halted' = TRUE
          /\ failure' = [index |-> encode_item[num].index, kind |-> "metadata"]
          /\ UNCHANGED <<created, epc>>
       \/ /\ halted' = TRUE
          /\ failure' = [index |-> encode_item[num].index, kind |-> "assemble"]
          /\ UNCHANGED <<created, epc>>
    /\ UNCHANGED <<abortEncode_, abortOutput_, index_, encode_queue_,
                   output_queue_, encode_mutex_, output_mutex_, encode_item,
                   opc, index, item, dpc, submitted, late_submit,
                   pending_at_abort, compressed, released, sink, sink_busy,
                   freed>>

\* Line 342: lock_guard(output_mutex_).
EncodeThreadLockOutput(num) ==
    /\ ~halted
    /\ UNCHANGED outside_pipeline
    /\ UNCHANGED dequeued
    /\ epc[num] = "lock_out"
    /\ output_mutex_ = NoThread
    /\ output_mutex_' = EncodeThreadId(num)
    /\ epc' = [epc EXCEPT ![num] = "push"]
    /\ UNCHANGED <<abortEncode_, abortOutput_, index_, encode_queue_,
                   output_queue_, encode_mutex_, encode_item, opc, index, item,
                   dpc, halted, submitted, late_submit, pending_at_abort,
                   compressed, created, released, sink, sink_busy, freed,
                   failure>>

\* EncodeThreadPush with the worker handing its segment to the Sink itself.
EncodeThreadPushAndDeliver(num) ==
    /\ ~halted
    /\ UNCHANGED outside_pipeline
    /\ UNCHANGED dequeued
    /\ epc[num] = "push"
    /\ output_mutex_ = EncodeThreadId(num)
    /\ sink' = Append(sink, [index |-> encode_item[num].index,
                             by |-> EncodeThreadId(num)])
    /\ output_mutex_' = NoThread
    /\ encode_item' = [encode_item EXCEPT ![num] = NoItem]
    /\ epc' = [epc EXCEPT ![num] = "lock"]
    /\ UNCHANGED <<abortEncode_, abortOutput_, index_, encode_queue_,
                   output_queue_, encode_mutex_, opc, index, item, dpc, halted,
                   submitted, late_submit, pending_at_abort, compressed,
                   created, released, sink_busy, freed, failure>>

\* EncodeThreadPush with one output queue shared by all workers.
EncodeThreadPushSharedQueue(num) ==
    /\ ~halted
    /\ UNCHANGED outside_pipeline
    /\ UNCHANGED dequeued
    /\ epc[num] = "push"
    /\ output_mutex_ = EncodeThreadId(num)
    /\ output_queue_' = [output_queue_ EXCEPT
                           ![0] = Append(@, [index |-> encode_item[num].index])]
    /\ output_mutex_' = NoThread
    /\ encode_item' = [encode_item EXCEPT ![num] = NoItem]
    /\ epc' = [epc EXCEPT ![num] = "lock"]
    /\ UNCHANGED <<abortEncode_, abortOutput_, index_, encode_queue_,
                   encode_mutex_, opc, index, item, dpc, halted, submitted,
                   late_submit, pending_at_abort, compressed, created,
                   released, sink, sink_busy, freed, failure>>

\* Lines 341-345: push onto this worker's own queue, notify, and the
\* lock_guard goes out of scope with the loop body.  encode_item is not read
\* again before line 288 overwrites it.
EncodeThreadPush(num) ==
    /\ ~halted
    /\ UNCHANGED outside_pipeline
    /\ UNCHANGED dequeued
    /\ epc[num] = "push"
    /\ output_mutex_ = EncodeThreadId(num)
    /\ output_queue_' = [output_queue_ EXCEPT
                           ![num] = Append(@, [index |-> encode_item[num].index])]
    /\ output_mutex_' = NoThread
    /\ encode_item' = [encode_item EXCEPT ![num] = NoItem]
    /\ epc' = [epc EXCEPT ![num] = "lock"]
    /\ UNCHANGED <<abortEncode_, abortOutput_, index_, encode_queue_,
                   encode_mutex_, opc, index, item, dpc, halted, submitted,
                   late_submit, pending_at_abort, compressed, created,
                   released, sink, sink_busy, freed, failure>>

(* ------------------- JpegEncoder::outputThread (348-391) --------------- *)

\* Line 355: unique_lock(output_mutex_).
OutputThreadLock ==
    /\ ~halted
    /\ UNCHANGED outside_pipeline
    /\ UNCHANGED dequeued
    /\ opc = "lock"
    /\ output_mutex_ = NoThread
    /\ output_mutex_' = OutputThreadId
    /\ opc' = "scan"
    /\ UNCHANGED <<abortEncode_, abortOutput_, index_, encode_queue_,
                   output_queue_, encode_mutex_, epc, encode_item, index, item,
                   dpc, halted, submitted, late_submit, pending_at_abort,
                   compressed, created, released, sink, sink_busy, freed,
                   failure>>

\* ScanMatches looking at the first worker's queue only.
ScanMatchesFirstQueueOnly(queues, idx) ==
    {n \in {0} : queues[n] # <<>> /\ Head(queues[n]).index = idx}

\* ScanMatches without the comparison against the wanted index.
ScanMatchesAnyFront(queues, idx) ==
    {n \in EncodeThreads : queues[n] # <<>>}

\* Lines 366-377: the queues whose front item carries the wanted index; the
\* loop takes the first of them in queue order.
ScanMatches(queues, idx) ==
    {n \in EncodeThreads : queues[n] # <<>> /\ Head(queues[n]).index = idx}

FirstOf(S) == CHOOSE n \in S : \A m \in S : n <= m

\* OutputThreadScan copying the front item without popping it.
OutputThreadScanKeepsFront ==
    /\ ~halted
    /\ UNCHANGED outside_pipeline
    /\ UNCHANGED dequeued
    /\ opc = "scan"
    /\ output_mutex_ = OutputThreadId
    /\ \/ /\ ScanMatches(output_queue_, index) # {}
          /\ LET n == FirstOf(ScanMatches(output_queue_, index))
             IN  /\ item' = Head(output_queue_[n])
                 /\ UNCHANGED output_queue_
          /\ opc' = "got_item"
       \/ /\ ScanMatches(output_queue_, index) = {}
          /\ abortOutput_
          /\ \A n \in EncodeThreads : output_queue_[n] = <<>>
          /\ opc' = "done"
          /\ UNCHANGED <<item, output_queue_>>
       \/ /\ ScanMatches(output_queue_, index) = {}
          /\ ~(abortOutput_ /\ \A n \in EncodeThreads : output_queue_[n] = <<>>)
          /\ opc' = "wait"
          /\ UNCHANGED <<item, output_queue_>>
    /\ output_mutex_' = NoThread
    /\ UNCHANGED <<abortEncode_, abortOutput_, index_, encode_queue_,
                   encode_mutex_, epc, encode_item, index, dpc, halted,
                   submitted, late_submit, pending_at_abort, compressed,
                   created, released, sink, sink_busy, freed, failure>>

\* Lines 365-381, with output_mutex_ held.  `abort` ends TRUE only when
\* abortOutput_ was set and every queue is empty.
OutputThreadScan ==
    /\ ~halted
    /\ UNCHANGED outside_pipeline
    /\ UNCHANGED dequeued
    /\ opc = "scan"
    /\ output_mutex_ = OutputThreadId
    /\ \/ /\ ScanMatches(output_queue_, index) # {}
          /\ LET n == FirstOf(ScanMatches(output_queue_, index))
             IN  /\ item' = Head(output_queue_[n])
                 /\ output_queue_' = [output_queue_ EXCEPT ![n] = Tail(@)]
          /\ opc' = "got_item"
       \/ /\ ScanMatches(output_queue_, index) = {}
          /\ abortOutput_
          /\ \A n \in EncodeThreads : output_queue_[n] = <<>>
          /\ opc' = "done"
          /\ UNCHANGED <<item, output_queue_>>
       \/ /\ ScanMatches(output_queue_, index) = {}
          /\ ~(abortOutput_ /\ \A n \in EncodeThreads : output_queue_[n] = <<>>)
          /\ opc' = "wait"
          /\ UNCHANGED <<item, output_queue_>>
    /\ output_mutex_' = NoThread
    /\ UNCHANGED <<abortEncode_, abortOutput_, index_, encode_queue_,
                   encode_mutex_, epc, encode_item, index, dpc, halted,
                   submitted, late_submit, pending_at_abort, compressed,
                   created, released, sink, sink_busy, freed, failure>>

\* Line 381: wait_for returns once it has taken output_mutex_ again.
OutputThreadWake ==
    /\ ~halted
    /\ UNCHANGED outside_pipeline
    /\ UNCHANGED dequeued
    /\ opc = "wait"
    /\ output_mutex_ = NoThread
    /\ output_mutex_' = OutputThreadId
    /\ opc' = "scan"
    /\ UNCHANGED <<abortEncode_, abortOutput_, index_, encode_queue_,
                   output_queue_, encode_mutex_, epc, encode_item, index, item,
                   dpc, halted, submitted, late_submit, pending_at_abort,
                   compressed, created, released, sink, sink_busy, freed,
                   failure>>

\* OutputThreadInputDone without the notification.
OutputThreadInputDoneSkipped ==
    /\ ~halted
    /\ UNCHANGED outside_pipeline
    /\ UNCHANGED dequeued
    /\ opc = "got_item"
    /\ opc' = "deliver"
    /\ UNCHANGED <<abortEncode_, abortOutput_, index_, encode_queue_,
                   output_queue_, encode_mutex_, output_mutex_, epc,
                   encode_item, index, item, dpc, halted, submitted,
                   late_submit, pending_at_abort, compressed, created,
                   released, sink, sink_busy, freed, failure>>

\* Line 385: input_done_callback_(nullptr).
OutputThreadInputDone ==
    /\ ~halted
    /\ UNCHANGED outside_pipeline
    /\ UNCHANGED dequeued
    /\ opc = "got_item"
    /\ released' = released + 1
    /\ opc' = "deliver"
    /\ UNCHANGED <<abortEncode_, abortOutput_, index_, encode_queue_,
                   output_queue_, encode_mutex_, output_mutex_, epc,
                   encode_item, index, item, dpc, halted, submitted,
                   late_submit, pending_at_abort, compressed, created, sink,
                   sink_busy, freed, failure>>

\* Line 387: output_ready_callback_ is entered.
OutputThreadOutputReady ==
    /\ ~halted
    /\ UNCHANGED outside_pipeline
    /\ UNCHANGED dequeued
    /\ opc = "deliver"
    /\ sink_busy' = sink_busy \cup {OutputThreadId}
    /\ opc' = "in_sink"
    /\ UNCHANGED <<abortEncode_, abortOutput_, index_, encode_queue_,
                   output_queue_, encode_mutex_, output_mutex_, epc,
                   encode_item, index, item, dpc, halted, submitted,
                   late_submit, pending_at_abort, compressed, created,
                   released, sink, freed, failure>>

\* Line 387: output_ready_callback_ returns, or throws (the Sink's write
\* failed) and the exception leaves the thread function.
OutputThreadOutputReturn ==
    /\ ~halted
    /\ UNCHANGED outside_pipeline
    /\ UNCHANGED dequeued
    /\ opc = "in_sink"
    /\ \/ /\ sink' = Append(sink, [index |-> item.index, by |-> OutputThreadId])
          /\ sink_busy' = sink_busy \ {OutputThreadId}
          /\ opc' = "free"
          /\ UNCHANGED <<halted, failure>>
       \/ /\ halted' = TRUE
          /\ failure' = [index |-> item.index, kind |-> "sink"]
          /\ UNCHANGED <<sink, sink_busy, opc>>
    /\ UNCHANGED <<abortEncode_, abortOutput_, index_, encode_queue_,
                   output_queue_, encode_mutex_, output_mutex_, epc,
                   encode_item, index, item, dpc, submitted, late_submit,
                   pending_at_abort, compressed, created, released, freed>>

\* OutputThreadFree without the free.
OutputThreadFreeLeaks ==
    /\ ~halted
    /\ UNCHANGED outside_pipeline
    /\ UNCHANGED dequeued
    /\ opc = "free"
    /\ index' = index + 1
    /\ item' = NoItem
    /\ opc' = "lock"
    /\ UNCHANGED <<abortEncode_, abortOutput_, index_, encode_queue_,
                   output_queue_, encode_mutex_, output_mutex_, epc,
                   encode_item, dpc, halted, submitted, late_submit,
                   pending_at_abort, compressed, created, released, sink,
                   sink_busy, freed, failure>>

\* Lines 388-389: free(item.mem); index++.
OutputThreadFree ==
    /\ ~halted
    /\ UNCHANGED outside_pipeline
    /\ UNCHANGED dequeued
    /\ opc = "free"
    /\ freed' = [freed EXCEPT ![item.index] = @ + 1]
    /\ index' = index + 1
    /\ item' = NoItem
    /\ opc' = "lock"
    /\ UNCHANGED <<abortEncode_, abortOutput_, index_, encode_queue_,
                   output_queue_, encode_mutex_, output_mutex_, epc,
                   encode_item, dpc, halted, submitted, late_submit,
                   pending_at_abort, compressed, created, released, sink,
                   sink_busy, failure>>

(* ------------------- JpegEncoder::~JpegEncoder (36-45) ----------------- *)

\* Line 38: abortEncode_ = true.
DestructorAbortEncode ==
    /\ ~halted
    /\ UNCHANGED outside_pipeline
    /\ UNCHANGED dequeued
    /\ dpc = "open"
    /\ abortEncode_' = TRUE
    /\ pending_at_abort' = PendingFrames
    /\ dpc' = "join_encode"
    /\ UNCHANGED <<abortOutput_, index_, encode_queue_, output_queue_,
                   encode_mutex_, output_mutex_, epc, encode_item, opc, index,
                   item, halted, submitted, late_submit, compressed, created,
                   released, sink, sink_busy, freed, failure>>

\* Lines 39-41: every encode thread is joined, then abortOutput_ = true.
DestructorAbortOutput ==
    /\ ~halted
    /\ UNCHANGED outside_pipeline
    /\ UNCHANGED dequeued
    /\ dpc = "join_encode"
    /\ \A n \in EncodeThreads : epc[n] = "done"
    /\ abortOutput_' = TRUE
    /\ dpc' = "join_output"
    /\ UNCHANGED <<abortEncode_, index_, encode_queue_, output_queue_,
                   encode_mutex_, output_mutex_, epc, encode_item, opc, index,
                   item, halted, submitted, late_submit, pending_at_abort,
                   compressed, created, released, sink, sink_busy, freed,
                   failure>>

\* Lines 42-45: the output thread is joined and the destructor returns.
DestructorClose ==
    /\ ~halted
    /\ UNCHANGED outside_pipeline
    /\ UNCHANGED dequeued
    /\ dpc = "join_output"
    /\ opc = "done"
    /\ dpc' = "closed"
    /\ UNCHANGED <<abortEncode_, abortOutput_, index_, encode_queue_,
                   output_queue_, encode_mutex_, output_mutex_, epc,
                   encode_item, opc, index, item, halted, submitted,
                   late_submit, pending_at_abort, compressed, created,
                   released, sink, sink_busy, freed, failure>>

(* ------------- segment assembly in encodeThread (315-326) -------------- *)

\* exif_header (line 24): 0xff 0xd8 0xff 0xe1.
exif_header == <<255, 216, 255, 225>>

\* A byte of the stream is named by where it comes from: a marker or length
\* byte by its value, a byte of a buffer by its offset in that buffer.
BufferBytes(name, offset, len) ==
    [i \in 1 .. len |-> <<name, offset + (i - 1)>>]

HeaderBytes == [i \in 1 .. Len(exif_header) |-> <<"exif_header", exif_header[i]>>]

\* LengthBytes with the low byte written first.
LengthBytesLittleEndian(el, tl) ==
    << <<"length", (el + tl + 2) % 256>>,
       <<"length", ((el + tl + 2) \div 256) % 256>> >>

\* Lines 320-321: the two fputc calls; fputc writes its argument converted
\* to unsigned char.
LengthBytes(el, tl) ==
    << <<"length", ((el + tl + 2) \div 256) % 256>>,
       <<"length", (el + tl + 2) % 256>> >>

\* Line 323 with the whole compressor output written, its header included.
ImageBytesUnskipped(jl) == BufferBytes("jpeg_buffer", 0, jl)

\* Line 323: fwrite(jpeg_buffer + exif_image_offset, jpeg_len - exif_image_offset, 1, fp).
ImageBytes(jl) ==
    BufferBytes("jpeg_buffer", exif_image_offset, jl - exif_image_offset)

\* Lines 320-323 when no call fails: the bytes written, in order.  The
\* thumbnail is written only when thumb_len is not 0.
SegmentBytes(jl, el, tl) ==
    HeaderBytes \o LengthBytes(el, tl) \o BufferBytes("exif_buffer", 0, el)
        \o (IF tl # 0 THEN BufferBytes("thumb_buffer", 0, tl) ELSE <<>>)
        \o ImageBytes(jl)

\* Lines 320-324: the condition of the throw.  fwrite(p, size, 1, fp)
\* returns 0, not 1, when size is 0 or the stream cannot take the bytes.
\* With jpeg_len below exif_image_offset the size wraps (size_t) to more than
\* any stream can take.
SegmentThrows(jl, el, tl, ok) ==
    \/ ~ok
    \/ el = 0
    \/ jl <= exif_image_offset

\* Lines 318-326: open_memstream, the writes, fclose (which sets output_buf
\* and output_len), or the throw of line 324.
AssembleSegment ==
    /\ assemble_pc = "input"
    /\ \/ /\ ~SegmentThrows(jpeg_len, exif_len, thumb_len, stream_ok)
          /\ output_buf' = SegmentBytes(jpeg_len, exif_len, thumb_len)
          /\ output_len' = Len(SegmentBytes(jpeg_len, exif_len, thumb_len))
          /\ assemble_pc' = "closed"
       \/ /\ SegmentThrows(jpeg_len, exif_len, thumb_len, stream_ok)
          /\ assemble_pc' = "thrown"
          /\ UNCHANGED <<output_buf, output_len>>
    /\ UNCHANGED <<jpeg_len, exif_len, thumb_len, stream_ok>>
    /\ UNCHANGED outside_assemble

\* The lengths encodeThread can reach line 318 with.  The compressor's output
\* is longer than its own header; exif_data_save_data leaves exif_len 0 when
\* it cannot allocate.  thumb_len is 0 in this build (line 306: nothing
\* assigns it), and lines 320-323 are written for any thumb_len.  exif_len is
\* drawn from the shortest blocks and from blocks around LargeExifLen, where
\* the length field needs its high byte.
AssembleInit ==
    /\ PipelineInit
    /\ LoopIdle
    /\ ExifIdle
    /\ JpegIdle
    /\ ImageIdle
    /\ jpeg_len \in (exif_image_offset + 1) .. (exif_image_offset + MaxImageLen)
    /\ exif_len \in (0 .. MaxExifLen) \cup (LargeExifLen .. (LargeExifLen + MaxExifLen))
    /\ thumb_len \in 0 .. MaxThumbLen
    /\ stream_ok \in BOOLEAN
    /\ assemble_pc = "input"
    /\ output_buf = <<>>
    /\ output_len = 0

AssembleNext ==
    \/ AssembleSegment

AssembleSpec == AssembleInit /\ [][AssembleNext]_vars

(* ----------------------- create_exif_data (127-256) -------------------- *)

\* A gain is a float; the model holds it as a whole number of 1/GainDenom.
\* GainDenom is a power of two and the gains are small, so every product
\* below is exact in float arithmetic and only the conversion to ExifShort
\* loses anything.
GainDenom == 2 * 2 * 2

Gains == GainDenom .. (GainDenom + MaxGainSteps)

ControlValues(id) ==
    IF id = "ExposureTime" THEN 0 .. MaxExposure ELSE Gains

\* ControlLists over the three controls create_exif_data reads: each control
\* is present with a value or absent.
ControlLists ==
    UNION {{md \in [ids -> 0 .. (GainDenom + MaxGainSteps)] :
               \A id \in ids : md[id] \in ControlValues(id)} :
           ids \in SUBSET {"ExposureTime", "AnalogueGain", "DigitalGain"}}

Contains(md, id) == id \in DOMAIN md

\* Lines 144-157: the fixed tags.
FixedTags ==
    [tag \in {"MAKE", "MODEL", "SOFTWARE", "DATE_TIME"} |->
        CASE tag = "MAKE" -> "Raspberry Pi"
          [] tag = "MODEL" -> "test camera name"
          [] tag = "SOFTWARE" -> "libcamera-still"
          [] OTHER -> "%Y:%m:%d %H:%M:%S"]

\* ExposureTag writing the tag whether or not the control is present, with 0
\* for an absent one.
ExposureTagZeroFilled(md) ==
    "EXPOSURE_TIME" :>
        <<(IF Contains(md, "ExposureTime") THEN md["ExposureTime"] ELSE 0), 1000000>>

\* Lines 160-168: ExposureTime as the rational exposure_time / 1000000.
ExposureTag(md) ==
    IF Contains(md, "ExposureTime")
    THEN "EXPOSURE_TIME" :> <<md["ExposureTime"], 1000000>>
    ELSE <<>>

\* Line 178: exif_set_short(entry->data, exif_byte_order, 100 * gain), with
\* gain = ag * dg in float.  The float argument is converted to ExifShort (an
\* unsigned 16-bit integer), which drops the fraction.  ag and dg are in units
\* of 1/GainDenom.
IsoValue(ag, dg) ==
    ((100 * ag * dg) \div (GainDenom * GainDenom)) % 65536

\* Lines 169-179: the tag is made when AnalogueGain is present; dg is 1.0
\* unless DigitalGain is present too.
IsoTag(md) ==
    IF Contains(md, "AnalogueGain")
    THEN "ISO_SPEED_RATINGS" :>
            IsoValue(md["AnalogueGain"],
                     IF Contains(md, "DigitalGain") THEN md["DigitalGain"]
                                                    ELSE GainDenom)
    ELSE <<>>

\* Lines 137-244 when nothing throws: the entries saved into exif_buffer.
ExifEntries(md) == FixedTags @@ ExposureTag(md) @@ IsoTag(md)

\* Lines 135-255: the block is saved, or an allocation fails (lines 108,
\* 123, 139) and the exception is rethrown at line 254.
CreateExifData ==
    /\ exif_pc = "input"
    /\ \/ /\ exif_alloc_ok
          /\ exif' = ExifEntries(metadata)
          /\ exif_pc' = "saved"
       \/ /\ ~exif_alloc_ok
          /\ exif_pc' = "thrown"
          /\ UNCHANGED exif
    /\ UNCHANGED <<metadata, exif_alloc_ok>>
    /\ UNCHANGED outside_exif

ExifInit ==
    /\ PipelineInit
    /\ LoopIdle
    /\ AssembleIdle
    /\ JpegIdle
    /\ ImageIdle
    /\ metadata \in ControlLists
    /\ exif_alloc_ok \in BOOLEAN
    /\ exif_pc = "input"
    /\ exif = <<>>

ExifNext ==
    \/ CreateExifData

ExifSpec == ExifInit /\ [][ExifNext]_vars

(* ------------------- JpegEncoder::encodeJPEG (55-99) ------------------- *)

Min(a, b) == IF a <= b THEN a ELSE b

\* Lines 74-80, as byte offsets from item.mem (Y is item.mem itself).
stride2(s) == s \div 2

Y == 0

U(h, s) == Y + s * h

V(h, s) == U(h, s) + stride2(s) * (h \div 2)

Y_max(h, s) == U(h, s) - s

U_max(h, s) == V(h, s) - stride2(s)

V_max(h, s) == U_max(h, s) + stride2(s) * (h \div 2)

\* Lines 86-95: one pass of the loop.  The row pointers of the band are set,
\* each the smaller of the running pointer and the plane's maximum, and
\* jpeg_write_raw_data takes the 16 lines.
EncodeBand ==
    /\ jpeg_pc = "bands"
    /\ next_scanline < height
    /\ y_rows' = [i \in 1 .. 16 |->
                     Min(Y_row + (i - 1) * stride, Y_max(height, stride))]
    /\ u_rows' = [i \in 1 .. 8 |->
                     Min(U_row + (i - 1) * stride2(stride), U_max(height, stride))]
    /\ v_rows' = [i \in 1 .. 8 |->
                     Min(V_row + (i - 1) * stride2(stride), V_max(height, stride))]
    /\ Y_row' = Y_row + 16 * stride
    /\ U_row' = U_row + 8 * stride2(stride)
    /\ V_row' = V_row + 8 * stride2(stride)
    /\ next_scanline' = next_scanline + 16
    /\ UNCHANGED <<height, stride, jpeg_pc>>
    /\ UNCHANGED outside_jpeg

\* Lines 86 and 97: the loop ends and jpeg_finish_compress is called.
FinishCompress ==
    /\ jpeg_pc = "bands"
    /\ ~(next_scanline < height)
    /\ jpeg_pc' = "finished"
    /\ UNCHANGED <<height, stride, next_scanline, Y_row, U_row, V_row,
                   y_rows, u_rows, v_rows>>
    /\ UNCHANGED outside_jpeg

\* Lines 59-86: a frame of any height from 1 and an even stride; the loop
\* starts with the three running pointers at the start of their planes.
JpegInit ==
    /\ PipelineInit
    /\ LoopIdle
    /\ AssembleIdle
    /\ ExifIdle
    /\ ImageIdle
    /\ height \in 1 .. MaxHeight
    /\ stride \in {2 * k : k \in 1 .. MaxHalfStride}
    /\ next_scanline = 0
    /\ Y_row = Y
    /\ U_row = U(height, stride)
    /\ V_row = V(height, stride)
    /\ y_rows = <<>>
    /\ u_rows = <<>>
    /\ v_rows = <<>>
    /\ jpeg_pc = "bands"

JpegNext ==
    \/ EncodeBand
    \/ FinishCompress

JpegSpec == JpegInit /\ [][JpegNext]_vars

(* ------------------ ImageOutput (image_output.cpp) -------------------- *)

StdoutFp == [kind |-> "stdout", call |-> 0]

\* The stream fopen returns to the call with this number.
FileFp(call) == [kind |-> "file", call |-> call]

\* The number of the outputBuffer call under way or, between calls, of the
\* next one; calls are counted from 0.
CallNumber == Len(file_log)

\* What one outputBuffer call has done so far: the number its file name was
\* made from, whether it opened that file, whether the file is still open,
\* the stream its bytes went to (NullFp: none), and whether it ended in an exception.
LogEntry(number, opened, threw) ==
    [number |-> number, opened |-> opened, open |-> opened, wrote |-> NullFp,
     threw |-> threw]

\* The file name made from the counter after its increment.
FileNameCounterIncremented(c) == c + 1

\* Line 46: snprintf(filename, ..., count_): the number in the file name.
FileNameCounter(c) == c

\* Lines 47-49: count_++, then count_ = count_ % wrap when wrap is not 0.
NextCount(c, w) == IF w # 0 THEN (c + 1) % w ELSE c + 1

\* Lines 23, 38-61: openFile.  snprintf can fail (line 50) and so can fopen
\* (line 54); either throws out of outputBuffer, after count_ has changed.
OutputBufferOpenFile ==
    /\ image_pc = "ready"
    /\ CallNumber < MaxCalls
    /\ \/ /\ output = "-"
          /\ fp_' = StdoutFp
          /\ file_log' = Append(file_log, LogEntry(count_, FALSE, FALSE))
          /\ image_pc' = "write"
          /\ UNCHANGED count_
       \/ /\ output = ""
          /\ file_log' = Append(file_log, LogEntry(count_, FALSE, FALSE))
          /\ image_pc' = "write"
          /\ UNCHANGED <<fp_, count_>>
       \/ /\ output \notin {"-", ""}
          /\ count_' = NextCount(count_, wrap)
          /\ \/ /\ fp_' = FileFp(CallNumber)
                /\ file_log' = Append(file_log,
                                      LogEntry(FileNameCounter(count_), TRUE, FALSE))
                /\ image_pc' = "write"
             \/ /\ UNCHANGED fp_
                /\ file_log' = Append(file_log,
                                      LogEntry(FileNameCounter(count_), FALSE, TRUE))
                /\ image_pc' = "ready"
             \/ /\ fp_' = NullFp
                /\ file_log' = Append(file_log,
                                      LogEntry(FileNameCounter(count_), FALSE, TRUE))
                /\ image_pc' = "ready"
    /\ UNCHANGED <<output, wrap>>
    /\ UNCHANGED outside_image

\* Lines 27-33: the bytes are written when there is a stream and size is not
\* 0; a failed fwrite throws out of outputBuffer with the stream left as it is.
OutputBufferWrite ==
    /\ image_pc = "write"
    /\ \E size \in 0 .. 1 : \E fwrite_ok \in BOOLEAN :
          IF fp_ # NullFp /\ size # 0
          THEN IF fwrite_ok
               THEN /\ file_log' = [file_log EXCEPT ![CallNumber].wrote = fp_]
                    /\ image_pc' = "close"
               ELSE /\ file_log' = [file_log EXCEPT ![CallNumber].threw = TRUE]
                    /\ image_pc' = "ready"
          ELSE /\ image_pc' = "close"
               /\ UNCHANGED file_log
    /\ UNCHANGED <<output, wrap, count_, fp_>>
    /\ UNCHANGED outside_image

\* Lines 35, 63-68: closeFile, then outputBuffer returns.
OutputBufferCloseFile ==
    /\ image_pc = "close"
    /\ file_log' = IF fp_.kind = "file"
                   THEN [file_log EXCEPT ![fp_.call + 1].open = FALSE]
                   ELSE file_log
    /\ fp_' = NullFp
    /\ image_pc' = "ready"
    /\ UNCHANGED <<output, wrap, count_>>
    /\ UNCHANGED outside_image

\* A new ImageOutput (lines 10-13) for any output option and any wrap.
ImageInit ==
    /\ PipelineInit
    /\ LoopIdle
    /\ AssembleIdle
    /\ ExifIdle
    /\ JpegIdle
    /\ output \in {"-", "", "pattern"}
    /\ wrap \in 0 .. MaxWrap
    /\ count_ = 0
    /\ fp_ = NullFp
    /\ image_pc = "ready"
    /\ file_log = <<>>

ImageNext ==
    \/ OutputBufferOpenFile
    \/ OutputBufferWrite
    \/ OutputBufferCloseFile

ImageSpec == ImageInit /\ [][ImageNext]_vars

(* ------------- event_loop (libcamera_still_stream.cpp) ---------------- *)

\* The values `key` takes: 0, '\n', 'x', 'X', or any other character.
KeyValues == {"0", "newline", "x", "X", "other"}

\* The first character of a line the user can type.
TypedKeys == KeyValues \ {"0"}

Iterations == 1 .. Len(iter_log)

\* What an iteration has read so far and the calls it has made on the app.
NewIteration == [seen |-> {}, calls |-> <<>>]

Sees(what) ==
    [iter_log EXCEPT ![Len(iter_log)].seen = @ \cup {what}]

Calls(names) ==
    [iter_log EXCEPT ![Len(iter_log)].calls = @ \o names]

\* What reading a line's first character tells the loop.
SeenForKey(k) ==
    CASE k = "newline" -> "newline key"
      [] k \in {"x", "X"} -> "x key"
      [] OTHER -> "other key"

\* Lines 41-45: default_signal_handler, run when SIGUSR1 or SIGUSR2 arrives.
default_signal_handler(signal_number) ==
    /\ loop_pc \notin {"idle", "returned", "thrown"}
    /\ signal_received' = signal_number
    /\ UNCHANGED <<options, stdin, gpio_received, count, enabled, key, loop_pc,
                   iter_log>>
    /\ UNCHANGED outside_loop

\* Lines 32-36: gpioHandler, run on a rising edge of the trigger pin.
gpioHandler ==
    /\ loop_pc \notin {"idle", "returned", "thrown"}
    /\ gpio_received' = GPIO_TRIGGER_INDEX
    /\ UNCHANGED <<options, stdin, signal_received, count, enabled, key,
                   loop_pc, iter_log>>
    /\ UNCHANGED outside_loop

\* The user types a line, or stdin reaches its end.
StdinInput ==
    /\ loop_pc \notin {"idle", "returned", "thrown"}
    /\ "EOF" \notin {stdin[i] : i \in 1 .. Len(stdin)}
    /\ \/ /\ Len(stdin) < MaxTyped
          /\ \E c \in TypedKeys : stdin' = Append(stdin, c)
       \/ stdin' = Append(stdin, "EOF")
    /\ UNCHANGED <<options, signal_received, gpio_received, count, enabled,
                   key, loop_pc, iter_log>>
    /\ UNCHANGED outside_loop

\* Lines 153-157: app.Wait() and the test of the message type.
EventLoopWait ==
    /\ loop_pc = "wait"
    /\ \/ /\ Len(iter_log) < MaxIterations
          /\ iter_log' = Append(iter_log, NewIteration)
          /\ loop_pc' = "poll"
       \/ /\ loop_pc' = "returned"
          /\ UNCHANGED iter_log
       \/ /\ loop_pc' = "thrown"
          /\ UNCHANGED iter_log
    /\ UNCHANGED <<options, stdin, signal_received, gpio_received, count,
                   enabled, key>>
    /\ UNCHANGED outside_loop

\* Lines 49-60: with options->keypress, poll stdin and read a line when there
\* is something to read.  At the end of input poll still reports POLLIN and
\* getline returns -1 without storing a line; its result is not looked at, so
\* user_string[0] is then whatever the fresh buffer holds.
GetKeyPoll ==
    /\ loop_pc = "poll"
    /\ IF options.keypress /\ stdin # <<>>
       THEN IF Head(stdin) = "EOF"
            THEN /\ key' \in KeyValues
                 /\ iter_log' = Sees("uninitialized")
                 /\ UNCHANGED stdin
            ELSE /\ key' = Head(stdin)
                 /\ stdin' = Tail(stdin)
                 /\ iter_log' = Sees(SeenForKey(Head(stdin)))
       ELSE /\ key' = "0"
            /\ UNCHANGED <<stdin, iter_log>>
    /\ loop_pc' = "signal"
    /\ UNCHANGED <<options, signal_received, gpio_received, count, enabled>>
    /\ UNCHANGED outside_loop

\* Lines 61-66: with options->signal, a pending SIGUSR1 replaces the key by
\* '\n' and a pending SIGUSR2 by 'x'.
GetKeySignal ==
    /\ loop_pc = "signal"
    /\ IF options.signal
       THEN /\ loop_pc' = "signal_clear"
            /\ CASE signal_received = "SIGUSR1" ->
                        key' = "newline" /\ iter_log' = Sees("SIGUSR1")
                 [] signal_received = "SIGUSR2" ->
                        key' = "x" /\ iter_log' = Sees("SIGUSR2")
                 [] OTHER -> UNCHANGED <<key, iter_log>>
       ELSE /\ loop_pc' = "gpio"
            /\ UNCHANGED <<key, iter_log>>
    /\ UNCHANGED <<options, stdin, signal_received, gpio_received, count,
                   enabled>>
    /\ UNCHANGED outside_loop

\* Line 67: signal_received = 0, whatever has arrived since it was read.
GetKeySignalClear ==
    /\ loop_pc = "signal_clear"
    /\ signal_received' = "0"
    /\ loop_pc' = "gpio"
    /\ UNCHANGED <<options, stdin, gpio_received, count, enabled, key,
                   iter_log>>
    /\ UNCHANGED outside_loop

\* Lines 70-75: a pending GPIO edge replaces the key by '\n', whatever the
\* key was.
GetKeyGpio ==
    /\ loop_pc = "gpio"
    /\ IF gpio_received # 0
       THEN /\ key' = "newline"
            /\ gpio_received' = 0
            /\ iter_log' = Sees("GPIO edge")
       ELSE UNCHANGED <<key, gpio_received, iter_log>>
    /\ loop_pc' = "decide"
    /\ UNCHANGED <<options, stdin, signal_received, count, enabled>>
    /\ UNCHANGED outside_loop

\* Line 168.
frameout == options.frames # 0 /\ count >= options.frames

\* Lines 159-193: the latch, the stop conditions, and the submission.  Whether
\* the timeout has passed (line 166) is the clock's answer.
EventLoopDecide ==
    /\ loop_pc = "decide"
    /\ \E passed \in BOOLEAN :
          LET latched == enabled \/ key = "newline"
              timeout == options.frames = 0 /\ options.timeout # 0 /\ passed
              reasons == (IF timeout THEN {"timeout"} ELSE {})
                           \cup (IF frameout THEN {"frame limit"} ELSE {})
              logged == [iter_log EXCEPT ![Len(iter_log)].seen = @ \cup reasons]
          IN  IF timeout \/ frameout \/ key \in {"x", "X"}
              THEN /\ iter_log' = [logged EXCEPT ![Len(iter_log)].calls =
                                       @ \o <<"StopCamera", "StopEncoder">>]
                   /\ enabled' = latched
                   /\ loop_pc' = "returned"
                   /\ UNCHANGED count
              ELSE /\ iter_log' = IF latched
                                  THEN Calls(<<"EncodeBuffer", "ShowPreview">>)
                                  ELSE iter_log
                   /\ enabled' = FALSE
                   /\ count' = count + 1
                   /\ loop_pc' = "wait"
    /\ UNCHANGED <<options, stdin, signal_received, gpio_received, key>>
    /\ UNCHANGED outside_loop

\* Lines 136-151: the loop is entered with the handlers installed, for any
\* choice of the options it reads.
LoopInit ==
    /\ PipelineInit
    /\ AssembleIdle
    /\ ExifIdle
    /\ JpegIdle
    /\ ImageIdle
    /\ options \in [keypress : BOOLEAN, signal : BOOLEAN,
                    frames : {0, MaxIterations - 1}, timeout : 0 .. 1]
    /\ stdin = <<>>
    /\ signal_received = "0"
    /\ gpio_received = 0
    /\ count = 0
    /\ enabled = FALSE
    /\ key = "0"
    /\ loop_pc = "wait"
    /\ iter_log = <<>>

LoopNext ==
    \/ \E signal_number \in {"SIGUSR1", "SIGUSR2"} : default_signal_handler(signal_number)
    \/ gpioHandler
    \/ StdinInput
    \/ EventLoopWait
    \/ GetKeyPoll
    \/ GetKeySignal
    \/ GetKeySignalClear
    \/ GetKeyGpio
    \/ EventLoopDecide

LoopSpec == LoopInit /\ [][LoopNext]_vars

(* ---------------------------- specification ---------------------------- *)

Next ==
    \/ EncodeBuffer
    \/ \E num \in EncodeThreads : EncodeThreadLock(num)
    \/ \E num \in EncodeThreads : EncodeThreadCheck(num)
    \/ \E num \in EncodeThreads : EncodeThreadWake(num)
    \/ \E num \in EncodeThreads : EncodeThreadCompress(num)
    \/ \E num \in EncodeThreads : EncodeThreadEmbed(num)
    \/ \E num \in EncodeThreads : EncodeThreadLockOutput(num)
    \/ \E num \in EncodeThreads : EncodeThreadPush(num)
    \/ OutputThreadLock
    \/ OutputThreadScan
    \/ OutputThreadWake
    \/ OutputThreadInputDone
    \/ OutputThreadOutputReady
    \/ OutputThreadOutputReturn
    \/ OutputThreadFree
    \/ DestructorAbortEncode
    \/ DestructorAbortOutput
    \/ DestructorClose

Spec == Init /\ [][Next]_vars

\* The steps a thread takes without acquiring a mutex: enabled until taken.
WorkerStep(num) ==
    \/ EncodeThreadCheck(num)
    \/ EncodeThreadCompress(num)
    \/ EncodeThreadEmbed(num)
    \/ EncodeThreadPush(num)

\* The steps in which a worker acquires a mutex: enabled whenever the mutex
\* is free, disabled while another thread is inside its locked block.
WorkerAcquire(num) ==
    \/ EncodeThreadLock(num)
    \/ EncodeThreadWake(num)
    \/ EncodeThreadLockOutput(num)

OutputStep ==
    \/ OutputThreadScan
    \/ OutputThreadInputDone
    \/ OutputThreadOutputReady
    \/ OutputThreadOutputReturn
    \/ OutputThreadFree

OutputAcquire ==
    \/ OutputThreadLock
    \/ OutputThreadWake

\* The joins of the destructor, once it has been entered.
DestructorStep ==
    \/ DestructorAbortOutput
    \/ DestructorClose

\* Fair scheduling: every thread keeps running, and a thread that finds a
\* mutex free again and again eventually gets it.  Nothing obliges the caller
\* to submit a frame or to destroy the encoder.
Fairness ==
    /\ \A num \in EncodeThreads :
          WF_vars(WorkerStep(num)) /\ SF_vars(WorkerAcquire(num))
    /\ WF_vars(OutputStep)
    /\ SF_vars(OutputAcquire)
    /\ WF_vars(DestructorStep)

FairSpec == Spec /\ Fairness

(* ------------------------------ properties ---------------------------- *)

InSequenceOrder(deliveries) ==
    \A k \in 1 .. Len(deliveries) : deliveries[k].index = k - 1

QueuesEmpty == \A n \in EncodeThreads : output_queue_[n] = <<>>

\* C1: whatever order the workers finish in, the k-th delivery to the Sink
\* (counting from 0) carries the segment whose sequence index is k: strictly
\* increasing, no gap, no duplicate.
C1_SinkInSequenceOrder == InSequenceOrder(sink)

\* A delivery has been made while a segment that is not the next expected
\* one is already complete and held back in a worker's queue.
C1_Witness ==
    /\ Len(sink) >= 1
    /\ \E n \in EncodeThreads :
          /\ output_queue_[n] # <<>>
          /\ Head(output_queue_[n]).index > index
    /\ \E n \in EncodeThreads : encode_item[n] = [index |-> index]

\* C2: once the destructor has returned, the Sink has received as many
\* deliveries as EncodeBuffer calls have returned.
C2_AllAcceptedDelivered == dpc = "closed" => Len(sink) = index_

\* C3: two-phase drain.  With no EncodeBuffer call after shutdown began,
\* every frame is delivered, in order, by the time the destructor returns;
\* abortOutput_ is set only after every worker has returned; a worker returns
\* only on abortEncode_ with the submission queue empty; outputThread returns
\* only on abortOutput_ with every output queue empty.
C3_TwoPhaseDrain ==
    /\ []((dpc = "closed" /\ ~late_submit) =>
             (Len(sink) = index_ /\ InSequenceOrder(sink)))
    /\ [](abortOutput_ => \A n \in EncodeThreads : epc[n] = "done")
    /\ [][\A n \in EncodeThreads :
             (epc[n] # "done" /\ epc'[n] = "done") =>
                 (abortEncode_ /\ encode_queue_ = <<>>)]_vars
    /\ [][(opc # "done" /\ opc' = "done") => (abortOutput_ /\ QueuesEmpty)]_vars

\* Shutdown began with at least two frames queued or being encoded, nothing
\* was submitted afterwards, and the destructor has returned.
C3_Witness ==
    /\ dpc = "closed"
    /\ ~late_submit
    /\ pending_at_abort >= 2
    /\ Len(sink) = index_

\* C4: once shutdown has been initiated no step issues a sequence index or
\* appends to the submission queue.
C4_SubmitAfterShutdownRejected ==
    [][abortEncode_ =>
          (index_' = index_ /\ Len(encode_queue_') <= Len(encode_queue_))]_vars

\* C5: the i-th frame appended to the submission queue carries index i
\* (from 0), index_ is the number of frames appended, and the queue holds
\* the latest appended frames in order.
C5_IndicesContiguous ==
    /\ InSequenceOrder(submitted)
    /\ index_ = Len(submitted)
    /\ \A k \in 1 .. Len(encode_queue_) :
          encode_queue_[k].index = index_ - Len(encode_queue_) + (k - 1)

\* Every frame has been submitted while workers were taking frames off the
\* queue.
C5_Witness ==
    /\ Len(submitted) = MaxFrames
    /\ encode_queue_ # <<>>
    /\ \E n \in EncodeThreads : encode_item[n] # NoItem

\* C6: after a failure in a worker or in the Sink the process is halted and
\* nothing changes any more; in particular nothing with an index at or above
\* the failed one has been or will be delivered.
C6_FailureAbortsPipeline ==
    /\ [](failure # NoFailure =>
             /\ halted
             /\ \A k \in 1 .. Len(sink) : sink[k].index < failure.index)
    /\ [][failure # NoFailure => UNCHANGED vars]_vars

\* A worker failed on a frame while a later frame was already complete in
\* an output queue.
C6_Witness ==
    /\ failure.kind \in {"compress", "metadata", "assemble"}
    /\ \E n \in EncodeThreads :
          /\ output_queue_[n] # <<>>
          /\ Head(output_queue_[n]).index > failure.index

\* C7: every delivery is made by outputThread, at most one delivery is in
\* progress, and none is in progress while outputThread looks for the next
\* frame.
C7_SinkSingleThreaded ==
    /\ \A k \in 1 .. Len(sink) : sink[k].by = OutputThreadId
    /\ sink_busy \subseteq {OutputThreadId}
    /\ (sink_busy # {}) = (opc = "in_sink")
    /\ opc \in {"lock", "scan", "wait", "done"} => sink_busy = {}

\* A delivery is in progress while every worker is encoding.
C7_Witness ==
    /\ sink_busy = {OutputThreadId}
    /\ \A n \in EncodeThreads : epc[n] \in {"encode", "embed"}

\* C8: the k-th release invocation (from 0) happens only after frame k has
\* been compressed, the releases never outnumber the compressed frames, and
\* there is one release per frame claimed by outputThread.
C8_ReleaseAfterCompression ==
    /\ \A k \in 0 .. (released - 1) : k \in compressed
    /\ released <= Cardinality(compressed)
    /\ released = index + (IF opc \in {"deliver", "in_sink", "free"} THEN 1 ELSE 0)

\* A release has been signalled while a later frame is still being
\* compressed.
C8_Witness ==
    /\ released >= 2
    /\ \E n \in EncodeThreads :
          epc[n] = "encode" /\ encode_item[n].index >= released

\* C9: a segment is freed at most once, only after its delivery has
\* returned, and once the destructor has returned every segment created has
\* been freed.
C9_SegmentFreedOnce ==
    /\ \A i \in Indices :
          /\ freed[i] <= 1
          /\ freed[i] = 1 =>
                (i \in created /\ \E k \in 1 .. Len(sink) : sink[k].index = i)
    /\ dpc = "closed" => \A i \in created : freed[i] = 1

\* The destructor has returned after every frame was turned into a segment.
C9_Witness ==
    /\ dpc = "closed"
    /\ created = Indices
    /\ \A i \in Indices : freed[i] = 1

\* C10: a segment is the 4-byte marker, the 2-byte length field, the
\* metadata block, the thumbnail (when its length is not 0) and the
\* compressor's output from offset exif_image_offset to its end, so its size
\* is 4 + 2 + exif_len + thumb_len + (jpeg_len - exif_image_offset).
C10_SegmentLayout ==
    assemble_pc = "closed" =>
        /\ output_len = 4 + 2 + exif_len + thumb_len + (jpeg_len - exif_image_offset)
        /\ Len(output_buf) = output_len
        /\ \A i \in 1 .. 4 : output_buf[i] = <<"exif_header", exif_header[i]>>
        /\ \A i \in 5 .. 6 : output_buf[i][1] = "length"
        /\ \A i \in 1 .. exif_len : output_buf[6 + i] = <<"exif_buffer", i - 1>>
        /\ \A i \in 1 .. thumb_len :
              output_buf[6 + exif_len + i] = <<"thumb_buffer", i - 1>>
        /\ \A i \in 1 .. (jpeg_len - exif_image_offset) :
              output_buf[6 + exif_len + thumb_len + i]
                  = <<"jpeg_buffer", exif_image_offset + (i - 1)>>

\* A segment without thumbnail, as this build makes them, has been written.
C10_Witness ==
    /\ assemble_pc = "closed"
    /\ thumb_len = 0
    /\ exif_len >= 2
    /\ jpeg_len >= exif_image_offset + 2

\* v is an integer nearest to 100 * ag * dg (either neighbour on a tie), for
\* ag and dg in units of 1/GainDenom.
IsNearest(v, ag, dg) ==
    LET exact == 100 * ag * dg
        scaled == v * GainDenom * GainDenom
    IN  /\ 2 * (exact - scaled) <= GainDenom * GainDenom
        /\ 2 * (scaled - exact) <= GainDenom * GainDenom

\* C11: with both gains present the ISO tag is round(100 x analog_gain x
\* digital_gain).
C11_IsoRounded ==
    (/\ exif_pc = "saved"
     /\ Contains(metadata, "AnalogueGain")
     /\ Contains(metadata, "DigitalGain"))
        => IsNearest(exif["ISO_SPEED_RATINGS"],
                     metadata["AnalogueGain"], metadata["DigitalGain"])

\* C12 as stated: the exposure tag is there exactly when ExposureTime is, and
\* the ISO tag only when both gains are.
C12_TagsOnlyWhenBothGains ==
    exif_pc = "saved" =>
        /\ ("EXPOSURE_TIME" \in DOMAIN exif) = Contains(metadata, "ExposureTime")
        /\ ("ISO_SPEED_RATINGS" \in DOMAIN exif) =>
              (Contains(metadata, "AnalogueGain") /\ Contains(metadata, "DigitalGain"))

\* C12 amended: the exposure tag is there exactly when ExposureTime is, with
\* its value; the ISO tag is there exactly when AnalogueGain is, computed with
\* a digital gain of 1.0 when DigitalGain is absent; no other tag depends on
\* the metadata.
C12_TagsFollowMetadata ==
    exif_pc = "saved" =>
        /\ ("EXPOSURE_TIME" \in DOMAIN exif) = Contains(metadata, "ExposureTime")
        /\ Contains(metadata, "ExposureTime") =>
              exif["EXPOSURE_TIME"] = <<metadata["ExposureTime"], 1000000>>
        /\ ("ISO_SPEED_RATINGS" \in DOMAIN exif) = Contains(metadata, "AnalogueGain")
        /\ (Contains(metadata, "AnalogueGain") /\ ~Contains(metadata, "DigitalGain")) =>
              exif["ISO_SPEED_RATINGS"] = IsoValue(metadata["AnalogueGain"], GainDenom)
        /\ DOMAIN exif \subseteq
              {"MAKE", "MODEL", "SOFTWARE", "DATE_TIME", "EXPOSURE_TIME",
               "ISO_SPEED_RATINGS"}

\* A block has been saved for a frame that carries no metadata at all.
C12_Witness ==
    /\ exif_pc = "saved"
    /\ DOMAIN metadata = {}
    /\ DOMAIN exif = {"MAKE", "MODEL", "SOFTWARE", "DATE_TIME"}

\* The start of each row of a plane that begins at `base`, has `rows` rows
\* and `pitch` bytes per row.
RowStarts(base, rows, pitch) == {base + r * pitch : r \in 0 .. (rows - 1)}

\* C13: every luma row pointer handed to the encoder is the start of a row in
\* [0, h-1] of the luma plane, and every chroma row pointer the start of a row
\* in [0, h/2 - 1] of its own plane, for every height h >= 1.
C13_RowPointersInPlane ==
    /\ \A i \in DOMAIN y_rows :
          y_rows[i] \in RowStarts(Y, height, stride)
    /\ \A i \in DOMAIN u_rows :
          u_rows[i] \in RowStarts(U(height, stride), height \div 2, stride2(stride))
    /\ \A i \in DOMAIN v_rows :
          v_rows[i] \in RowStarts(V(height, stride), height \div 2, stride2(stride))

\* How many segments for index i exist: in a worker's hands once created, in
\* an output queue, or claimed by outputThread and not yet freed.
SegmentsOf(i) ==
    Cardinality({n \in EncodeThreads :
                    epc[n] \in {"lock_out", "push"} /\ encode_item[n].index = i})
    + Cardinality({<<n, k>> \in EncodeThreads \X (1 .. MaxFrames) :
                    k <= Len(output_queue_[n]) /\ output_queue_[n][k].index = i})
    + (IF item.index = i THEN 1 ELSE 0)

\* SegmentsOf(i) <= 1 for every i, spelled out place by place.
NoTwoSegmentsOfOneIndex ==
    /\ \A n \in EncodeThreads :
          epc[n] \in {"lock_out", "push"} =>
              /\ encode_item[n].index # item.index
              /\ \A m \in EncodeThreads \ {n} :
                    epc[m] \in {"lock_out", "push"} =>
                        encode_item[m].index # encode_item[n].index
    /\ \A n \in EncodeThreads : \A j \in 1 .. Len(output_queue_[n]) :
          LET i == output_queue_[n][j].index
          IN  /\ i # item.index
              /\ \A m \in EncodeThreads :
                    /\ epc[m] \in {"lock_out", "push"} => encode_item[m].index # i
                    /\ \A k \in 1 .. Len(output_queue_[m]) :
                          (m # n \/ k # j) => output_queue_[m][k].index # i

\* C14: the items leave the submission queue in the order 0, 1, 2, ... over
\* the whole pool, each once: what has been dequeued followed by what is
\* still queued is what was submitted, no two workers hold the same item, and
\* no index has more than one segment.
C14_DequeueFifoOnce ==
    /\ InSequenceOrder(dequeued)
    /\ dequeued \o encode_queue_ = submitted
    /\ \A n, m \in EncodeThreads :
          (n # m /\ encode_item[n] # NoItem) => encode_item[n] # encode_item[m]
    /\ NoTwoSegmentsOfOneIndex

\* Every frame has been dequeued and every worker holds one of them.
C14_Witness ==
    /\ Len(dequeued) = MaxFrames
    /\ \A n \in EncodeThreads : encode_item[n] # NoItem

\* C15 as stated: the Sink delivery of a frame precedes the release
\* notification for that frame, so there are never more release notifications
\* than deliveries.
C15_SinkBeforeRelease ==
    released <= Len(sink)

\* C15: for the frame outputThread has claimed, the steps happen in the order
\* removal from the worker queue, release notification, Sink delivery, free,
\* increment of index.
C15_EmissionOrder ==
    /\ opc = "got_item" =>
          /\ item.index = index
          /\ SegmentsOf(index) = 1
          /\ released = index /\ Len(sink) = index /\ freed[index] = 0
    /\ opc \in {"deliver", "in_sink"} =>
          /\ item.index = index
          /\ released = index + 1 /\ Len(sink) = index /\ freed[index] = 0
    /\ opc = "free" =>
          /\ item.index = index
          /\ released = index + 1 /\ Len(sink) = index + 1 /\ freed[index] = 0
    /\ opc \in {"lock", "scan", "wait", "done"} =>
          /\ item = NoItem
          /\ released = index /\ Len(sink) = index
          /\ \A i \in Indices : freed[i] = (IF i < index THEN 1 ELSE 0)

\* The release notification for a later frame has been made and its bytes
\* have not yet reached the Sink.
C15_Witness ==
    /\ opc = "deliver"
    /\ index >= 1
    /\ released = Len(sink) + 1

\* The thread that holds a mutex is at the step that ends with its release.
HolderReleases ==
    /\ encode_mutex_ # NoThread => ENABLED (\E n \in EncodeThreads : EncodeThreadCheck(n))
    /\ output_mutex_ # NoThread =>
          ENABLED (OutputThreadScan \/ \E n \in EncodeThreads : EncodeThreadPush(n))

\* C16: a worker holds encode_mutex_ only in the check-and-pop block and
\* output_mutex_ only in the push block, outputThread holds output_mutex_ only
\* while scanning, so no mutex is held across encodeJPEG, create_exif_data or
\* the callbacks and no thread holds both mutexes; while the process lives,
\* the holder of a mutex can always take the step that releases it.
C16_NoLockAcrossWork ==
    /\ \A n \in EncodeThreads :
          /\ encode_mutex_ = EncodeThreadId(n) => epc[n] = "check"
          /\ output_mutex_ = EncodeThreadId(n) => epc[n] = "push"
          /\ ~(encode_mutex_ = EncodeThreadId(n) /\ output_mutex_ = EncodeThreadId(n))
    /\ output_mutex_ = OutputThreadId => opc = "scan"
    /\ encode_mutex_ # OutputThreadId
    /\ ~halted => HolderReleases

\* Both mutexes are held, by different threads, while a third thread is
\* compressing or embedding.
C16_Witness ==
    /\ encode_mutex_ # NoThread
    /\ output_mutex_ # NoThread
    /\ encode_mutex_ # output_mutex_
    /\ \E n \in EncodeThreads :
          /\ epc[n] \in {"encode", "embed"}
          /\ EncodeThreadId(n) \notin {encode_mutex_, output_mutex_}

AllThreadsDone ==
    /\ \A n \in EncodeThreads : epc[n] = "done"
    /\ opc = "done"

\* C17: once abortEncode_ is set, every worker returns, then outputThread
\* returns and the destructor completes, unless the process has died of a
\* failure first; the waits need no notification for this.
C17_ShutdownCompletes ==
    abortEncode_ ~> (halted \/ (dpc = "closed" /\ AllThreadsDone))

\* Shutdown has begun while every thread sits in its wait on empty queues:
\* no notification will come, only the timeouts.
C17_Witness ==
    /\ abortEncode_
    /\ encode_queue_ = <<>>
    /\ \A n \in EncodeThreads : epc[n] = "wait"
    /\ opc = "wait"

\* C18: a frame submitted while no shutdown has begun is dequeued by some
\* worker and then delivered to the Sink, unless the process dies of a failure
\* first.
C18_SubmittedFrameDelivered ==
    \A i \in Indices :
        (index_ > i /\ ~abortEncode_) ~> (halted \/ (Len(dequeued) > i /\ Len(sink) > i))

\* The last frame's segment is in the second worker's queue and outputThread,
\* which found nothing when it last scanned, is in its bounded wait.
C18_Witness ==
    /\ ~abortEncode_
    /\ opc = "wait"
    /\ index = MaxFrames - 1
    /\ ScanMatches(output_queue_, index) = {NUM_ENC_THREADS - 1}

\* The number in the length field of a segment: high byte * 256 + low byte.
LengthField(buf) ==
    buf[Len(exif_header) + 1][2] * 256 + buf[Len(exif_header) + 2][2]

StrictlyIncreasing(queue) ==
    \A j, k \in 1 .. Len(queue) : j < k => queue[j].index < queue[k].index

\* C20: every worker's output queue is in strictly increasing index order, so
\* a segment carrying the index outputThread wants next, wherever it is
\* queued, is at the front of its queue.
C20_QueuesIncreasing ==
    \A n \in EncodeThreads :
        /\ StrictlyIncreasing(output_queue_[n])
        /\ \A k \in 1 .. Len(output_queue_[n]) :
              /\ output_queue_[n][k].index >= index
              /\ output_queue_[n][k].index = index => (k = 1 /\ n \in ScanMatches(output_queue_, index))

\* One worker has queued two segments while the wanted frame is still with
\* another worker.
C20_Witness ==
    \E n \in EncodeThreads :
        /\ Len(output_queue_[n]) >= 2
        /\ Head(output_queue_[n]).index > index
        /\ \E m \in EncodeThreads : m # n /\ encode_item[m].index = index

\* The places a frame can be in between EncodeBuffer and the end of its
\* delivery.
InSubmissionQueue(i) ==
    \E k \in 1 .. Len(encode_queue_) : encode_queue_[k].index = i

HeldByWorker(n, i) ==
    epc[n] \in {"encode", "embed", "lock_out", "push"} /\ encode_item[n].index = i

InOutputQueue(n, i) ==
    \E k \in 1 .. Len(output_queue_[n]) : output_queue_[n][k].index = i

HeldByOutputThread(i) ==
    item.index = i

\* Frame i is with the workers' side of the pipeline, in exactly one place.
InOneWorkerPlace(i) ==
    \/ /\ InSubmissionQueue(i)
       /\ \A n \in EncodeThreads : ~HeldByWorker(n, i) /\ ~InOutputQueue(n, i)
    \/ /\ ~InSubmissionQueue(i)
       /\ \E n \in EncodeThreads :
             /\ HeldByWorker(n, i) # InOutputQueue(n, i)
             /\ \A m \in EncodeThreads \ {n} :
                   ~HeldByWorker(m, i) /\ ~InOutputQueue(m, i)

InNoWorkerPlace(i) ==
    /\ ~InSubmissionQueue(i)
    /\ \A n \in EncodeThreads : ~HeldByWorker(n, i) /\ ~InOutputQueue(n, i)

\* C21 as stated: an issued index below outputThread's index has been claimed
\* by outputThread, and any other issued index is in the submission queue, with
\* exactly one worker or in exactly one output queue.
C21_ThreePlaces ==
    \A i \in Indices :
        i < index_ =>
            IF i < index
            THEN InNoWorkerPlace(i)
            ELSE InOneWorkerPlace(i) /\ ~HeldByOutputThread(i)

\* Frame i is in some place.
Somewhere(i) ==
    \/ HeldByOutputThread(i)
    \/ InSubmissionQueue(i)
    \/ \E n \in EncodeThreads : HeldByWorker(n, i) \/ InOutputQueue(n, i)

\* C21: every issued index is in exactly one place.  Below outputThread's
\* index it has been delivered and freed; the index equal to it may also be in
\* outputThread's hands, being delivered, since index is incremented only
\* after the free; otherwise it is in the submission queue, with exactly one
\* worker or in exactly one output queue.  Stated place by place: whatever a
\* place holds is an issued index not below outputThread's index that no
\* other place holds, and every issued index not below outputThread's index
\* is in some place.  So when outputThread
\* finds output queues that are not empty and none has the wanted index at
\* its front, that frame is in the submission queue or with a worker.
C21_Conservation ==
    /\ \A k \in 1 .. Len(encode_queue_) :
          LET i == encode_queue_[k].index
          IN  /\ i \in index .. (index_ - 1)
              /\ ~HeldByOutputThread(i)
              /\ \A l \in 1 .. Len(encode_queue_) :
                    l # k => encode_queue_[l].index # i
              /\ \A n \in EncodeThreads : ~HeldByWorker(n, i) /\ ~InOutputQueue(n, i)
    /\ \A n \in EncodeThreads :
          LET i == encode_item[n].index
          IN  HeldByWorker(n, i) =>
                  /\ i \in index .. (index_ - 1)
                  /\ ~HeldByOutputThread(i)
                  /\ \A m \in EncodeThreads :
                        /\ ~InOutputQueue(m, i)
                        /\ m # n => ~HeldByWorker(m, i)
    /\ \A n \in EncodeThreads : \A k \in 1 .. Len(output_queue_[n]) :
          LET i == output_queue_[n][k].index
          IN  /\ i \in index .. (index_ - 1)
              /\ ~HeldByOutputThread(i)
              /\ \A m \in EncodeThreads : \A l \in 1 .. Len(output_queue_[m]) :
                    (m # n \/ l # k) => output_queue_[m][l].index # i
    /\ item # NoItem => item.index = index /\ index < index_
    /\ \A i \in index .. (index_ - 1) : Somewhere(i)
    /\ (/\ item = NoItem
        /\ \E n \in EncodeThreads : output_queue_[n] # <<>>
        /\ ScanMatches(output_queue_, index) = {}) =>
          \/ InSubmissionQueue(index)
          \/ \E n \in EncodeThreads : HeldByWorker(n, index)

\* Three frames in three different places: one with outputThread, one in an
\* output queue, one still in the submission queue.
C21_Witness ==
    /\ item # NoItem
    /\ \E n \in EncodeThreads : output_queue_[n] # <<>>
    /\ encode_queue_ # <<>>

\* The file number the claim gives to the call with number k.
ClaimedFileNumber(k) == IF wrap = 0 THEN k ELSE k % wrap

\* The calls that have returned normally.
ReturnedCalls ==
    {c \in 1 .. Len(file_log) :
        ~file_log[c].threw /\ (c = Len(file_log) => image_pc = "ready")}

\* C22: with a file-name pattern as output, the call with number k (from 0)
\* opens and writes the file numbered k when wrap is 0 and k mod wrap
\* otherwise; count_ is below wrap when wrap is not 0; a call that has
\* returned normally opened its own file and closed it; and between calls no
\* file is open unless a call has ended in an exception.
C22_FileNumbering ==
    output \notin {"-", ""} =>
        /\ \A c \in 1 .. Len(file_log) :
              /\ file_log[c].number = ClaimedFileNumber(c - 1)
              /\ file_log[c].wrote \in {NullFp, FileFp(c - 1)}
              /\ file_log[c].wrote # NullFp => file_log[c].opened
              /\ file_log[c].open => file_log[c].opened
        /\ count_ = ClaimedFileNumber(CallNumber)
        /\ wrap > 0 => count_ < wrap
        /\ \A c \in ReturnedCalls : file_log[c].opened /\ ~file_log[c].open
        /\ (image_pc = "ready" /\ \A c \in 1 .. Len(file_log) : ~file_log[c].threw) =>
              /\ fp_ = NullFp
              /\ \A c \in 1 .. Len(file_log) : ~file_log[c].open

\* The counter has wrapped: a later call has written the file an earlier call
\* wrote, and returned.
C22_Witness ==
    /\ output \notin {"-", ""}
    /\ wrap > 1
    /\ image_pc = "ready"
    /\ \E c, d \in ReturnedCalls :
          /\ c < d
          /\ file_log[c].number = file_log[d].number
          /\ file_log[c].wrote # NullFp
          /\ file_log[d].wrote # NullFp

\* What the loop can read that counts as a trigger, and as a stop condition.
Triggers == {"newline key", "SIGUSR1", "GPIO edge"}

StopConditions == {"x key", "timeout", "frame limit"}

Submitted(i) ==
    \E c \in 1 .. Len(iter_log[i].calls) : iter_log[i].calls[c] = "EncodeBuffer"

\* Iteration i has run to its end.
Finished(i) ==
    i < Len(iter_log) \/ loop_pc \in {"wait", "returned", "thrown"}

\* C23: a frame is submitted only in an iteration that has read a trigger (a
\* newline key, SIGUSR1 or a GPIO edge), so there are never more submissions
\* than such iterations; the latch is clear after every iteration that goes
\* on; and an iteration that has read a stop condition (the timeout, the
\* frame limit, an 'x' key) submits nothing and ends with StopCamera followed
\* by StopEncoder.
C23_SubmitOnlyOnTrigger ==
    /\ \A i \in Iterations :
          /\ Submitted(i) => iter_log[i].seen \cap Triggers # {}
          /\ iter_log[i].seen \cap StopConditions # {} =>
                /\ ~Submitted(i)
                /\ Finished(i) => iter_log[i].calls = <<"StopCamera", "StopEncoder">>
    /\ Cardinality({i \in Iterations : Submitted(i)})
          <= Cardinality({i \in Iterations : iter_log[i].seen \cap Triggers # {}})
    /\ loop_pc = "wait" => ~enabled

====
